---- MODULE Spec2Model ----
(***************************************************************************)
(* Authentication and request-safety layer of the backend (security.py):   *)
(* password hashing, JWT access and reset tokens, the current-user         *)
(* dependency, Mongo filter construction, upload validation and the        *)
(* sliding-window rate limiter.                                            *)
(*                                                                         *)
(* Time is counted in ticks, TicksPerSec ticks to the second, because the  *)
(* code reads datetime.utcnow() at sub-second resolution while a JWT "exp" *)
(* claim is carried in whole seconds.                                      *)
(***************************************************************************)
EXTENDS Integers, Sequences, FiniteSets, TLC

VARIABLES
    now,          \* the wall clock, datetime.utcnow(), in ticks
    rate_store,   \* _rate_store: key string -> list of timestamps
    rl_pair,      \* <<ip, route>> of the last check_rate_limit call, <<>> before any
    rl_ret,       \* value returned by the last check_rate_limit call
    rl_accepted,  \* history: key string -> the clock readings of its accepted calls
    rl_rejected,  \* history: key string -> how many of its calls were rejected
    tok,          \* the bearer string the client currently holds
    issued,       \* how tok was issued: by which function, for whom, when
    out,          \* outcome of the last token operation (cleared when time moves)
    q_in,         \* the client mapping given to the query sanitizer, in dict order
    q_allowed,    \* the allow-list given with it
    q_out,        \* outcome of the last build_safe_filter / build_update_payload
    u_name,       \* validate_upload: the filename argument
    u_len,        \* number of bytes the file_stream argument holds
    u_pc,         \* where the call stands: idle, streaming, written, done
    u_size,       \* the local `size`
    u_written,    \* bytes written to the temporary file so far
    u_file,       \* whether the temporary file is on disk: absent, present
    u_out,        \* how the call ended
    pw_plain,     \* the password given to hash_password
    pw_cand,      \* the password given to verify_password
    pw_hash,      \* what hash_password returned, <<>> before
    pw_ret        \* what verify_password returned, <<>> before

rateVars == <<rate_store, rl_pair, rl_ret, rl_accepted, rl_rejected>>
tokenVars == <<tok, issued, out>>
queryVars == <<q_in, q_allowed, q_out>>
uploadVars == <<u_name, u_len, u_pc, u_size, u_written, u_file, u_out>>
pwVars == <<pw_plain, pw_cand, pw_hash, pw_ret>>

(***************************************************************************)
(* Bounds and configuration                                                *)
(***************************************************************************)
\* clock resolution of the model: ticks per second
TicksPerSec == 2
\* last clock reading explored by the rate limiter specification
MaxRateTick == 5
\* RATE_LIMIT_WINDOW (seconds) and RATE_LIMIT_MAX as configured in the
\* environment (security.py:244-245 read them with os.getenv)
RATE_LIMIT_WINDOW == 2
RATE_LIMIT_MAX == 2
\* the history counts the rejected calls of a key up to this number
MaxNotedRejects == 1
\* tokens are issued up to this clock reading
MaxIssueTick == 3
\* largest explicit expires_minutes passed to create_access_token
MaxTtl == 1
\* largest number of keys in a client mapping
MaxFilterLen == 2
\* upload streams run up to this many whole chunks past MAX_UPLOAD_SIZE
MaxOverChunks == 1
\* longest tail of characters after the padding of a model password
MaxTail == 3
\* file_stream.read(4096)
CHUNK_SIZE == 4096
\* bcrypt's input limit, len(password_bytes) > 72
BCRYPT_MAX_BYTES == 72
\* ACCESS_TOKEN_EXPIRE_MINUTES default and the reset token's lifetime
ACCESS_TOKEN_EXPIRE_MINUTES == 30
RESET_TOKEN_EXPIRE_MINUTES == 15

(***************************************************************************)
(* Rate limiter                                                            *)
(***************************************************************************)
\* client identities and routes are character strings
IpA == <<"a">>
IpAB == <<"a", ":", "b">>
RouteX == <<"x">>
RouteBX == <<"b", ":", "x">>
Pairs == {<<IpA, RouteX>>, <<IpA, RouteBX>>, <<IpAB, RouteX>>}

\* key = f"{ip}:{route}"
KeyOf(ip, route) == ip \o <<":">> \o route

\* _rate_store = defaultdict(list): a missing key reads as the empty list
StoreGet(store, key) == IF key \in DOMAIN store THEN store[key] ELSE <<>>

StorePut(store, key, list) ==
    [k \in DOMAIN store \cup {key} |-> IF k = key THEN list ELSE store[k]]

\* [t for t in _rate_store[key] if now - t < RATE_LIMIT_WINDOW]
PruneMutantInclusive(list, at) ==
    SelectSeq(list, LAMBDA t : at - t <= RATE_LIMIT_WINDOW * TicksPerSec)

Prune(list, at) ==
    SelectSeq(list, LAMBDA t : at - t < RATE_LIMIT_WINDOW * TicksPerSec)

\* len(_rate_store[key]) >= RATE_LIMIT_MAX
AtCeiling(list) == Len(list) >= RATE_LIMIT_MAX

\* the accepted branch stores [now] instead of appending to the pruned list
check_rate_limitMutantOverwrites(ip, route) ==
    LET key == KeyOf(ip, route)
        kept == Prune(StoreGet(rate_store, key), now)
    IN  /\ rl_pair' = <<ip, route>>
        /\ IF AtCeiling(kept)
           THEN /\ rate_store' = StorePut(rate_store, key, kept)
                /\ rl_ret' = FALSE
           ELSE /\ rate_store' = StorePut(rate_store, key, <<now>>)
                /\ rl_ret' = TRUE

check_rate_limit(ip, route) ==
    LET key == KeyOf(ip, route)
        kept == Prune(StoreGet(rate_store, key), now)
    IN  /\ rl_pair' = <<ip, route>>
        /\ IF AtCeiling(kept)
           THEN /\ rate_store' = StorePut(rate_store, key, kept)
                /\ rl_ret' = FALSE
           ELSE /\ rate_store' = StorePut(rate_store, key, Append(kept, now))
                /\ rl_ret' = TRUE

\* rejected calls noted for a key so far, the count stopping at MaxNotedRejects
NotedRejects(noted, key) ==
    IF key \notin DOMAIN noted THEN 0
    ELSE IF noted[key] >= MaxNotedRejects THEN MaxNotedRejects - 1
    ELSE noted[key]

\* one call, run from the first line to the return without suspending (the
\* function is synchronous: it holds no await); the history notes an accepted call
CheckRateLimit ==
    /\ \E p \in Pairs :
         /\ check_rate_limit(p[1], p[2])
         /\ rl_accepted' =
               IF rl_ret'
               THEN StorePut(rl_accepted, KeyOf(p[1], p[2]),
                             Append(StoreGet(rl_accepted, KeyOf(p[1], p[2])), now))
               ELSE rl_accepted
         /\ rl_rejected' =
               IF rl_ret'
               THEN rl_rejected
               ELSE StorePut(rl_rejected, KeyOf(p[1], p[2]),
                             NotedRejects(rl_rejected, KeyOf(p[1], p[2])) + 1)
    /\ UNCHANGED <<now, tokenVars, queryVars, uploadVars, pwVars>>

\* the clock moves on by one tick
Tick ==
    /\ now < MaxRateTick
    /\ now' = now + 1
    /\ UNCHANGED <<rateVars, tokenVars, queryVars, uploadVars, pwVars>>


(***************************************************************************)
(* JWT tokens                                                              *)
(***************************************************************************)
\* timedelta(minutes=1) in ticks
Minute == 60 * TicksPerSec

\* Python's None
None == "<None>"

\* truthiness of a claim value: `not v`
Falsy(v) == v \in {None, ""}

\* identifiers: two well-formed ObjectId strings, an e-mail address, ""
OidAnn == "64b7f0c2a1d3e4f5a6b7c8d9"
OidGone == "64b7f0c2a1d3e4f5a6b7c8da"
Email == "u@x.com"
Subjects == {"", OidAnn, OidGone, Email}
Emails == {Email, "v@y.org"}

\* bson.ObjectId(s) accepts only 24 hexadecimal digits
IsValidObjectId(s) == s \in {OidAnn, OidGone}

\* user_collection: documents by _id
UserCollection == [id \in {OidAnn} |-> [name |-> "Ann"]]

NoPayload == [c \in {} |-> ""]

\* dict.get(key)
PayloadGet(payload, key) == IF key \in DOMAIN payload THEN payload[key] ELSE None

\* the `extra` arguments given to create_access_token (None is NoPayload)
ExtraClaims ==
    { NoPayload,
      [c \in {"name"} |-> "Bob"],
      [c \in {"name"} |-> ""],
      [c \in {"purpose"} |-> "other"],
      [c \in {"purpose"} |-> "reset_password"] }

\* jose: a datetime under "exp" is stored as timegm(utctimetuple()), whole seconds
ToNumericDate(ticks) == ticks \div TicksPerSec

\* jwt.encode(payload, SECRET_KEY, algorithm=JWT_ALGORITHM)
jwt_encode(payload) ==
    [payload |-> [c \in DOMAIN payload |->
                    IF c = "exp" THEN ToNumericDate(payload[c]) ELSE payload[c]],
     sig |-> "valid"]

\* jose _validate_exp: the token is refused when exp < now, both whole seconds
ExpiredMutantOnOrAfter(token, at) ==
    /\ "exp" \in DOMAIN token.payload
    /\ token.payload["exp"] <= ToNumericDate(at)

Expired(token, at) ==
    /\ "exp" \in DOMAIN token.payload
    /\ token.payload["exp"] < ToNumericDate(at)

\* jwt.decode(token, SECRET_KEY, algorithms=[JWT_ALGORITHM]) raises JWTError
JWTError(token, at) == token.sig # "valid" \/ Expired(token, at)

NoToken == [payload |-> NoPayload, sig |-> "none"]
NotIssued == [by |-> "none", subject |-> "", ttl |-> 0, at |-> 0]
NoOutcome ==
    [op |-> "none", status |-> 0, detail |-> "", sub |-> "", name |-> "",
     payload |-> NoPayload, lookups |-> 0]

\* raise HTTPException(status_code, detail) out of operation op
Raised(op, status, detail, lookups) ==
    [op |-> op, status |-> status, detail |-> detail, sub |-> "", name |-> "",
     payload |-> NoPayload, lookups |-> lookups]

\* a normal return (status 200) of operation op
Returned(op, payload, sub, name, lookups) ==
    [op |-> op, status |-> 200, detail |-> "", sub |-> sub, name |-> name,
     payload |-> payload, lookups |-> lookups]

\* expires_minutes or ACCESS_TOKEN_EXPIRE_MINUTES
EffectiveTtl(expires_minutes) ==
    IF expires_minutes = 0 THEN ACCESS_TOKEN_EXPIRE_MINUTES ELSE expires_minutes

create_access_token(subject, extra, expires_minutes, at) ==
    LET payload == [c \in {"sub"} |-> subject]
        updated == [c \in DOMAIN payload \cup DOMAIN extra |->
                      IF c \in DOMAIN extra THEN extra[c] ELSE payload[c]]
        expire == at + EffectiveTtl(expires_minutes) * Minute
        final == [c \in DOMAIN updated \cup {"exp"} |->
                      IF c = "exp" THEN expire ELSE updated[c]]
    IN  jwt_encode(final)

decode_access_token(token, at) ==
    IF JWTError(token, at)
    THEN Raised("access", 401, "Invalid or expired token", 0)
    ELSE IF "sub" \notin DOMAIN token.payload
         THEN Raised("access", 401, "Invalid token payload", 0)
         ELSE Returned("access", token.payload, token.payload["sub"], "", 0)

create_reset_token(email, at) ==
    jwt_encode([c \in {"sub", "purpose", "exp"} |->
                  CASE c = "sub" -> email
                    [] c = "purpose" -> "reset_password"
                    [] c = "exp" -> at + RESET_TOKEN_EXPIRE_MINUTES * Minute])

verify_reset_tokenMutantNoPurpose(token, at) ==
    IF JWTError(token, at)
    THEN Raised("reset", 401, "Invalid or expired reset token", 0)
    ELSE Returned("reset", token.payload, token.payload["sub"], "", 0)

verify_reset_token(token, at) ==
    IF JWTError(token, at)
    THEN Raised("reset", 401, "Invalid or expired reset token", 0)
    ELSE IF PayloadGet(token.payload, "purpose") # "reset_password"
         THEN Raised("reset", 400, "Invalid token purpose", 0)
         ELSE Returned("reset", token.payload, token.payload["sub"], "", 0)

get_current_userMutantAlwaysLookup(token, at) ==
    LET decoded == decode_access_token(token, at)
        user_id == PayloadGet(decoded.payload, "sub")
    IN  IF decoded.status # 200
        THEN [decoded EXCEPT !.op = "user"]
        ELSE IF Falsy(user_id)
        THEN Raised("user", 401, "Invalid token payload", 0)
        ELSE IF ~IsValidObjectId(user_id)
        THEN Raised("user", 500, "InvalidId", 0)
        ELSE IF user_id \notin DOMAIN UserCollection
        THEN Raised("user", 401, "User not found", 1)
        ELSE Returned("user", decoded.payload, user_id,
                      UserCollection[user_id].name, 1)

get_current_user(token, at) ==
    LET decoded == decode_access_token(token, at)
        user_id == PayloadGet(decoded.payload, "sub")
        user_name == PayloadGet(decoded.payload, "name")
    IN  IF decoded.status # 200
        THEN [decoded EXCEPT !.op = "user"]
        ELSE IF Falsy(user_id)
        THEN Raised("user", 401, "Invalid token payload", 0)
        ELSE IF ~Falsy(user_name)
        THEN Returned("user", decoded.payload, user_id, user_name, 0)
        \* ObjectId(user_id) raises bson.errors.InvalidId before find_one
        ELSE IF ~IsValidObjectId(user_id)
        THEN Raised("user", 500, "InvalidId", 0)
        ELSE IF user_id \notin DOMAIN UserCollection
        THEN Raised("user", 401, "User not found", 1)
        ELSE Returned("user", decoded.payload, user_id,
                      UserCollection[user_id].name, 1)

\* clock readings explored around each lifetime: 0, MaxTtl minutes, the reset
\* lifetime and the default access lifetime, each followed by ClockSlack ticks
ClockSlack == MaxIssueTick + 2 * TicksPerSec
ClockMarks ==
    {0, RESET_TOKEN_EXPIRE_MINUTES, ACCESS_TOKEN_EXPIRE_MINUTES} \cup (1..MaxTtl)
ClockReadings == {m * Minute + j : m \in ClockMarks, j \in 0..ClockSlack}

IssueAccessToken ==
    /\ now <= MaxIssueTick
    /\ \E subject \in Subjects, extra \in ExtraClaims, ttl \in 0..MaxTtl :
         /\ tok' = create_access_token(subject, extra, ttl, now)
         /\ issued' = [by |-> IF extra = NoPayload THEN "access" ELSE "access+extra",
                       subject |-> subject, ttl |-> EffectiveTtl(ttl), at |-> now]
    /\ out' = NoOutcome
    /\ UNCHANGED <<now, rateVars, queryVars, uploadVars, pwVars>>

IssueResetToken ==
    /\ now <= MaxIssueTick
    /\ \E email \in Emails :
         /\ tok' = create_reset_token(email, now)
         /\ issued' = [by |-> "reset", subject |-> email,
                       ttl |-> RESET_TOKEN_EXPIRE_MINUTES, at |-> now]
    /\ out' = NoOutcome
    /\ UNCHANGED <<now, rateVars, queryVars, uploadVars, pwVars>>

\* the client alters the token it holds: the signature no longer matches
TamperToken ==
    /\ tok.sig = "valid"
    /\ tok' = [tok EXCEPT !.sig = "invalid"]
    /\ out' = NoOutcome
    /\ UNCHANGED <<now, issued, rateVars, queryVars, uploadVars, pwVars>>

VerifyAccessToken ==
    /\ tok # NoToken
    /\ out' = decode_access_token(tok, now)
    /\ UNCHANGED <<now, tok, issued, rateVars, queryVars, uploadVars, pwVars>>

VerifyResetToken ==
    /\ tok # NoToken
    /\ out' = verify_reset_token(tok, now)
    /\ UNCHANGED <<now, tok, issued, rateVars, queryVars, uploadVars, pwVars>>

GetCurrentUser ==
    /\ tok # NoToken
    /\ out' = get_current_user(tok, now)
    /\ UNCHANGED <<now, tok, issued, rateVars, queryVars, uploadVars, pwVars>>

\* time passes: the clock reads a later value, the last return value is gone
ClockJump ==
    /\ \E later \in ClockReadings : later > now /\ now' = later
    /\ out' = NoOutcome
    /\ UNCHANGED <<tok, issued, rateVars, queryVars, uploadVars, pwVars>>


(***************************************************************************)
(* MongoDB injection protection                                            *)
(***************************************************************************)
\* field names are character strings
KeyEmail == <<"e", "m", "a", "i", "l">>
KeyRole == <<"r", "o", "l", "e">>
KeyWhere == <<"$", "w", "h", "e", "r", "e">>
KeySet == <<"$", "s", "e", "t">>
FieldNames == {KeyEmail, KeyRole, KeyWhere, KeySet}

\* client values: a string, a dict, a list of strings, a list holding a dict
\* (items gives the type of each element of a list)
ValString == [type |-> "str", repr |-> "a@b.com", items |-> <<>>]
ValDict == [type |-> "dict", repr |-> "{'$ne': ''}", items |-> <<>>]
ValList == [type |-> "list", repr |-> "['a', 'b']", items |-> <<"str", "str">>]
ValListOfDict == [type |-> "list", repr |-> "[{'$gt': ''}]", items |-> <<"dict">>]
ClientValues == {ValString, ValDict, ValList, ValListOfDict}

\* a dict is the sequence of its <<key, value>> items, keys distinct
RECURSIVE DictsOfLen(_)
DictsOfLen(n) ==
    IF n = 0 THEN {<<>>}
    ELSE { Append(d, <<k, v>>) :
             d \in DictsOfLen(n - 1), k \in FieldNames, v \in ClientValues }

DictKeys(d) == {d[i][1] : i \in 1..Len(d)}

ClientMappings ==
    { d \in UNION {DictsOfLen(n) : n \in 0..MaxFilterLen} :
        Cardinality(DictKeys(d)) = Len(d) }

\* d[key], for a key of d
DictValue(d, key) == d[CHOOSE i \in 1..Len(d) : d[i][1] = key][2]

\* key.startswith("$")
StartsWithDollar(key) == Len(key) > 0 /\ key[1] = "$"

\* key not in allowed_fields or key.startswith("$")
DroppedMutantNoPrefixTest(key, allowed_fields) == key \notin allowed_fields

Dropped(key, allowed_fields) ==
    key \notin allowed_fields \/ StartsWithDollar(key)

\* isinstance(value, dict)
IsDict(value) == value.type = "dict"

\* the for loop shared by both builders, from item i on, `safe` built so far:
\* raise on the first surviving dict value, else collect the surviving items
RECURSIVE SanitizeLoop(_, _, _, _)
SanitizeLoop(items, allowed_fields, i, safe) ==
    IF i > Len(items) THEN [raised |-> FALSE, safe |-> safe]
    ELSE IF Dropped(items[i][1], allowed_fields)
         THEN SanitizeLoop(items, allowed_fields, i + 1, safe)
         ELSE IF IsDict(items[i][2])
              THEN [raised |-> TRUE, safe |-> safe]
              ELSE SanitizeLoop(items, allowed_fields, i + 1,
                                Append(safe, items[i]))

NoQuery == [op |-> "none", status |-> 0, detail |-> "", wrap |-> "", result |-> <<>>]

build_safe_filter(client_filter, allowed_fields) ==
    LET loop == SanitizeLoop(client_filter, allowed_fields, 1, <<>>)
    IN  IF loop.raised
        THEN [op |-> "filter", status |-> 400, detail |-> "Invalid filter value",
              wrap |-> "", result |-> <<>>]
        ELSE [op |-> "filter", status |-> 200, detail |-> "",
              wrap |-> "", result |-> loop.safe]

build_update_payload(body, allowed_fields) ==
    LET loop == SanitizeLoop(body, allowed_fields, 1, <<>>)
    IN  IF loop.raised
        THEN [op |-> "update", status |-> 400, detail |-> "Invalid update value",
              wrap |-> "", result |-> <<>>]
        ELSE IF loop.safe = <<>>
        THEN [op |-> "update", status |-> 400,
              detail |-> "No valid fields to update", wrap |-> "", result |-> <<>>]
        ELSE [op |-> "update", status |-> 200, detail |-> "",
              wrap |-> "$set", result |-> loop.safe]

\* a request arrives: build_safe_filter(q_in, q_allowed)
BuildSafeFilter ==
    /\ q_out = NoQuery
    /\ q_out' = build_safe_filter(q_in, q_allowed)
    /\ UNCHANGED <<now, rateVars, tokenVars, q_in, q_allowed, uploadVars, pwVars>>

\* a request arrives: build_update_payload(q_in, q_allowed)
BuildUpdatePayload ==
    /\ q_out = NoQuery
    /\ q_out' = build_update_payload(q_in, q_allowed)
    /\ UNCHANGED <<now, rateVars, tokenVars, q_in, q_allowed, uploadVars, pwVars>>


(***************************************************************************)
(* File upload protection                                                  *)
(***************************************************************************)
MAX_UPLOAD_SIZE == 10 * 1024 * 1024

ExtPng == <<".", "p", "n", "g">>
ExtJpg == <<".", "j", "p", "g">>
ExtJpeg == <<".", "j", "p", "e", "g">>
ExtPdf == <<".", "p", "d", "f">>
ExtTxt == <<".", "t", "x", "t">>
ALLOWED_EXTENSIONS == {ExtPng, ExtJpg, ExtJpeg, ExtPdf, ExtTxt}

\* filenames a client may send
FilePng == <<"a", ".", "p", "n", "g">>
FileTxtInPath == <<".", ".", "/", "n", " ", ".", "T", "X", "T">>
FileExe == <<"x", ".", "e", "x", "e">>
FileNoSuffix == <<"p", "n", "g">>
Filenames == {FilePng, FileTxtInPath, FileExe, FileNoSuffix}

UpperCase ==
    <<"A", "B", "C", "D", "E", "F", "G", "H", "I", "J", "K", "L", "M",
      "N", "O", "P", "Q", "R", "S", "T", "U", "V", "W", "X", "Y", "Z">>
LowerCase ==
    <<"a", "b", "c", "d", "e", "f", "g", "h", "i", "j", "k", "l", "m",
      "n", "o", "p", "q", "r", "s", "t", "u", "v", "w", "x", "y", "z">>
Digits == {"0", "1", "2", "3", "4", "5", "6", "7", "8", "9"}

Range(seq) == {seq[i] : i \in 1..Len(seq)}

\* index of the last occurrence of ch in seq, 0 when there is none
LastIndexOf(seq, ch) ==
    LET hits == {i \in 1..Len(seq) : seq[i] = ch}
    IN  IF hits = {} THEN 0 ELSE CHOOSE i \in hits : \A j \in hits : j <= i

\* pathlib.Path(filename).name
BaseName(filename) ==
    SubSeq(filename, LastIndexOf(filename, "/") + 1, Len(filename))

\* re.sub(r"[^A-Za-z0-9._-]", "_", name)
SafeChar(c) ==
    IF c \in Range(UpperCase) \cup Range(LowerCase) \cup Digits \cup {".", "_", "-"}
    THEN c ELSE "_"

sanitize_filename(filename) ==
    LET name == BaseName(filename)
    IN  [i \in 1..Len(name) |-> SafeChar(name[i])]

\* str.lower() on one character
LowerChar(c) ==
    IF c \in Range(UpperCase)
    THEN LowerCase[CHOOSE i \in 1..Len(UpperCase) : UpperCase[i] = c]
    ELSE c

\* pathlib.Path(name).suffix.lower(): from the last dot, unless the dot is the
\* first or the last character
SuffixLower(name) ==
    LET dot == LastIndexOf(name, ".")
    IN  IF 1 < dot /\ dot < Len(name)
        THEN [i \in 1..(Len(name) - dot + 1) |-> LowerChar(name[dot + i - 1])]
        ELSE <<>>

\* mimetypes.guess_type(file_path): by extension, from the standard table or
\* from the mime.types files of the platform, which may map an extension to
\* another type; <<major, minor>>, <<>> for no guess
MimeTables == {"stdlib", "site"}

GuessType(ext, table) ==
    CASE ext = ExtPng -> <<"image", "png">>
      [] ext \in {ExtJpg, ExtJpeg} -> <<"image", "jpeg">>
      [] ext = ExtPdf -> <<"application", "pdf">>
      [] ext = ExtTxt -> IF table = "stdlib" THEN <<"text", "plain">>
                         ELSE <<"application", "x-text">>
      [] OTHER -> <<>>

\* guessed_mime.startswith(("image/", "text/", "application/pdf"))
HasAllowedMimePrefix(mime) ==
    \/ mime[1] \in {"image", "text"}
    \/ mime[1] = "application" /\ mime[2] = "pdf"

\* the streams a client may send, by length in bytes
StreamLengths ==
    {0, 1, CHUNK_SIZE, MAX_UPLOAD_SIZE - 1, MAX_UPLOAD_SIZE + 1,
     15 * 1024 * 1024}
        \cup {MAX_UPLOAD_SIZE + k * CHUNK_SIZE : k \in 0..MaxOverChunks}

NoUpload == [status |-> 0, detail |-> ""]

\* size > MAX_UPLOAD_SIZE
OverCeilingMutantAtCeiling(size) == size >= MAX_UPLOAD_SIZE

OverCeiling(size) == size > MAX_UPLOAD_SIZE

\* what file_stream.read(4096) returns next, by length
NextChunk == IF u_len - u_size < CHUNK_SIZE THEN u_len - u_size ELSE CHUNK_SIZE

\* lines 197-208: the extension test, then open(file_path, "wb")
BeginUpload ==
    /\ u_pc = "idle"
    /\ IF SuffixLower(sanitize_filename(u_name)) \notin ALLOWED_EXTENSIONS
       THEN /\ u_out' = [status |-> 400, detail |-> "File type not allowed"]
            /\ u_pc' = "done"
            /\ UNCHANGED u_file
       ELSE /\ u_file' = "present"
            /\ u_pc' = "streaming"
            /\ UNCHANGED u_out
    /\ UNCHANGED <<u_name, u_len, u_size, u_written>>
    /\ UNCHANGED <<now, rateVars, tokenVars, queryVars, pwVars>>

\* one turn of the while loop, lines 209-215
ReadChunk ==
    /\ u_pc = "streaming"
    /\ IF NextChunk = 0
       THEN /\ u_pc' = "written"
            /\ UNCHANGED <<u_size, u_written, u_file, u_out>>
       ELSE /\ u_size' = u_size + NextChunk
            /\ IF OverCeiling(u_size')
               THEN /\ u_file' = "absent"
                    /\ u_out' = [status |-> 400, detail |-> "File too large"]
                    /\ u_pc' = "done"
                    /\ UNCHANGED u_written
               ELSE /\ u_written' = u_written + NextChunk
                    /\ UNCHANGED <<u_pc, u_file, u_out>>
    /\ UNCHANGED <<u_name, u_len>>
    /\ UNCHANGED <<now, rateVars, tokenVars, queryVars, pwVars>>

\* file_stream.read raises (line 209): the with block closes the file and the
\* exception leaves validate_upload
ReadRaises ==
    /\ u_pc = "streaming"
    /\ u_out' = [status |-> 500, detail |-> "read raised"]
    /\ u_pc' = "done"
    /\ UNCHANGED <<u_name, u_len, u_size, u_written, u_file>>
    /\ UNCHANGED <<now, rateVars, tokenVars, queryVars, pwVars>>

\* f.write raises (line 215), after the chunk was read and counted
WriteRaises ==
    /\ u_pc = "streaming"
    /\ NextChunk > 0
    /\ ~OverCeiling(u_size + NextChunk)
    /\ u_size' = u_size + NextChunk
    /\ u_out' = [status |-> 500, detail |-> "write raised"]
    /\ u_pc' = "done"
    /\ UNCHANGED <<u_name, u_len, u_written, u_file>>
    /\ UNCHANGED <<now, rateVars, tokenVars, queryVars, pwVars>>

\* lines 217-224: the MIME guess, then the digest and the return
FinishUpload ==
    /\ u_pc = "written"
    /\ \E table \in MimeTables :
         LET guessed_mime ==
                 GuessType(SuffixLower(sanitize_filename(u_name)), table)
         IN  IF guessed_mime # <<>> /\ ~HasAllowedMimePrefix(guessed_mime)
             THEN /\ u_file' = "absent"
                  /\ u_out' = [status |-> 400, detail |-> "Suspicious file type"]
             ELSE /\ u_out' = [status |-> 200, detail |-> ""]
                  /\ UNCHANGED u_file
    /\ u_pc' = "done"
    /\ UNCHANGED <<u_name, u_len, u_size, u_written>>
    /\ UNCHANGED <<now, rateVars, tokenVars, queryVars, pwVars>>

(***************************************************************************)
(* Password hashing                                                        *)
(***************************************************************************)
\* passwords are strings over a letter, a blank and a two-byte letter
PwChars == {"a", " ", "e'"}

\* str.encode("utf-8") of one character
Utf8(c) ==
    CASE c = "a" -> <<97>>
      [] c = " " -> <<32>>
      [] c = "e'" -> <<195, 169>>

RECURSIVE Encode(_)
Encode(text) == IF text = <<>> THEN <<>> ELSE Utf8(Head(text)) \o Encode(Tail(text))

\* str.strip(): whitespace off both ends
RECURSIVE LStrip(_)
LStrip(text) ==
    IF text # <<>> /\ Head(text) = " " THEN LStrip(Tail(text)) ELSE text

RECURSIVE RStrip(_)
RStrip(text) ==
    IF text # <<>> /\ text[Len(text)] = " "
    THEN RStrip(SubSeq(text, 1, Len(text) - 1)) ELSE text

Strip(text) == RStrip(LStrip(text))

\* password_bytes[:72] when longer
Truncate(bytes) ==
    IF Len(bytes) > BCRYPT_MAX_BYTES THEN SubSeq(bytes, 1, BCRYPT_MAX_BYTES) ELSE bytes

\* password.strip().encode("utf-8"), cut to 72 bytes
PasswordBytesMutantNoStrip(password) == Truncate(Encode(password))

PasswordBytes(password) == Truncate(Encode(Strip(password)))

\* bcrypt.gensalt() and bcrypt.hashpw(bytes, salt): the hash embeds the salt
\* and is taken to be collision-free, so it stands for the bytes it was given
Salts == {"salt1", "salt2"}
hashpw(bytes, salt) == <<salt, bytes>>

\* bcrypt.checkpw(bytes, hashed): hash again with the embedded salt and compare
checkpw(bytes, hashed) == hashpw(bytes, hashed[1]) = hashed

RECURSIVE Pad(_)
Pad(n) == IF n = 0 THEN <<>> ELSE <<"a">> \o Pad(n - 1)

RECURSIVE TailsOfLen(_)
TailsOfLen(n) ==
    IF n = 0 THEN {<<>>}
    ELSE {Append(t, c) : t \in TailsOfLen(n - 1), c \in PwChars}

\* short passwords and passwords around the 72 byte limit
Passwords ==
    { Pad(n) \o t : n \in {0, BCRYPT_MAX_BYTES - 2},
                    t \in UNION {TailsOfLen(k) : k \in 0..MaxTail} }

HashPassword ==
    /\ pw_hash = <<>>
    /\ \E salt \in Salts : pw_hash' = hashpw(PasswordBytes(pw_plain), salt)
    /\ UNCHANGED <<pw_plain, pw_cand, pw_ret>>
    /\ UNCHANGED <<now, rateVars, tokenVars, queryVars, uploadVars>>

VerifyPassword ==
    /\ pw_hash # <<>>
    /\ pw_ret = <<>>
    /\ pw_ret' = <<checkpw(PasswordBytes(pw_cand), pw_hash)>>
    /\ UNCHANGED <<pw_plain, pw_cand, pw_hash>>
    /\ UNCHANGED <<now, rateVars, tokenVars, queryVars, uploadVars>>

vars == <<now, rateVars, tokenVars, queryVars, uploadVars, pwVars>>

\* the state of each component before anything ran
RateIdle ==
    /\ rate_store = [k \in {} |-> <<>>]
    /\ rl_pair = <<>>
    /\ rl_ret = FALSE
    /\ rl_accepted = [k \in {} |-> <<>>]
    /\ rl_rejected = [k \in {} |-> 0]

TokenIdle ==
    /\ tok = NoToken
    /\ issued = NotIssued
    /\ out = NoOutcome

QueryIdle ==
    /\ q_in = <<>>
    /\ q_allowed = {}
    /\ q_out = NoQuery

UploadIdle ==
    /\ u_name = <<>>
    /\ u_len = 0
    /\ u_pc = "idle"
    /\ u_size = 0
    /\ u_written = 0
    /\ u_file = "absent"
    /\ u_out = NoUpload

PasswordIdle ==
    /\ pw_plain = <<>>
    /\ pw_cand = <<>>
    /\ pw_hash = <<>>
    /\ pw_ret = <<>>

Init ==
    /\ now = 0
    /\ RateIdle
    /\ TokenIdle
    /\ QueryIdle
    /\ UploadIdle
    /\ PasswordIdle

NextRate == Tick \/ CheckRateLimit

SpecRate == Init /\ [][NextRate]_vars

NextToken ==
    \/ IssueAccessToken
    \/ IssueResetToken
    \/ TamperToken
    \/ VerifyAccessToken
    \/ VerifyResetToken
    \/ GetCurrentUser
    \/ ClockJump

SpecToken == Init /\ [][NextToken]_vars

\* the sanitizers are pure: the arguments of the call are drawn at the start
InitQuery ==
    /\ now = 0
    /\ RateIdle
    /\ TokenIdle
    /\ q_in \in ClientMappings
    /\ q_allowed \in SUBSET FieldNames
    /\ q_out = NoQuery
    /\ UploadIdle
    /\ PasswordIdle

NextQuery == BuildSafeFilter \/ BuildUpdatePayload

SpecQuery == InitQuery /\ [][NextQuery]_vars

\* one validate_upload call: its arguments are drawn at the start
InitUpload ==
    /\ now = 0
    /\ RateIdle
    /\ TokenIdle
    /\ QueryIdle
    /\ PasswordIdle
    /\ u_name \in Filenames
    /\ u_len \in StreamLengths
    /\ u_pc = "idle"
    /\ u_size = 0
    /\ u_written = 0
    /\ u_file = "absent"
    /\ u_out = NoUpload

NextUpload ==
    \/ BeginUpload
    \/ ReadChunk
    \/ ReadRaises
    \/ WriteRaises
    \/ FinishUpload

SpecUpload == InitUpload /\ [][NextUpload]_vars

\* hash_password then verify_password: the two passwords are drawn at the start
InitPassword ==
    /\ now = 0
    /\ RateIdle
    /\ TokenIdle
    /\ QueryIdle
    /\ UploadIdle
    /\ pw_plain \in Passwords
    /\ pw_cand \in Passwords
    /\ pw_hash = <<>>
    /\ pw_ret = <<>>

NextPassword == HashPassword \/ VerifyPassword

SpecPassword == InitPassword /\ [][NextPassword]_vars

\* the whole module: every operation of every component
Next ==
    \/ NextRate
    \/ NextToken
    \/ NextQuery
    \/ NextUpload
    \/ NextPassword

Spec == Init /\ [][Next]_vars

(***************************************************************************)
(* Rate limiter properties                                                 *)
(***************************************************************************)
\* a step of SpecRate in which check_rate_limit(p[1], p[2]) ran and changed
\* something (a repeated rejection of the same pair changes nothing)
IsCheckStep(p) ==
    /\ now' = now
    /\ rl_pair' = p
    /\ rateVars' # rateVars

\* the timestamps of `list` still inside the window that ends at `at`
InsideWindow(list, at) ==
    SelectSeq(list, LAMBDA t : t > at - RATE_LIMIT_WINDOW * TicksPerSec)

\* C1: every check_rate_limit call first drops the key's timestamps that have
\* left the trailing window; with the ceiling reached among the remaining ones
\* it returns false and records nothing, otherwise it appends the current
\* timestamp and returns true.
C1_CheckContract ==
    [][\A p \in Pairs :
         IsCheckStep(p) =>
           LET key == KeyOf(p[1], p[2])
               remaining == InsideWindow(StoreGet(rate_store, key), now)
           IN  IF Len(remaining) >= RATE_LIMIT_MAX
               THEN rl_ret' = FALSE /\ StoreGet(rate_store', key) = remaining
               ELSE rl_ret' = TRUE
                    /\ StoreGet(rate_store', key) = Append(remaining, now)]_vars

\* C1 witness: RATE_LIMIT_MAX calls for one key were accepted at the same
\* clock reading and the next call, still at that reading, was rejected
\* (the scenario true, ..., true, false)
C1_Witness ==
    /\ rl_pair = <<IpA, RouteX>>
    /\ rl_ret = FALSE
    /\ LET list == StoreGet(rate_store, KeyOf(IpA, RouteX))
       IN  /\ Len(list) = RATE_LIMIT_MAX
           /\ \A i \in 1..Len(list) : list[i] = now

(***************************************************************************)
(* Token properties                                                        *)
(***************************************************************************)
\* tok is an untampered token from create_access_token
HoldsAccessToken == issued.by \in {"access", "access+extra"} /\ tok.sig = "valid"

\* tok is an untampered token from create_reset_token
HoldsResetToken == issued.by = "reset" /\ tok.sig = "valid"

\* the instant issuance time + ttl, in ticks
IssuedExpiry == issued.at + issued.ttl * Minute

InvalidTokenError(o) == o.status = 401 /\ o.detail = "Invalid or expired token"

\* C2: a token from create_reset_token, verified by decode_access_token at any
\* time within its 15 minutes, is rejected.
C2_ResetTokenRejectedAsAccess ==
    (HoldsResetToken /\ out.op = "access" /\ now < IssuedExpiry)
        => out.status # 200

\* C3 as stated: verification of an issued access token returns sub = S at any
\* time before issuance time + t and fails with InvalidToken at any time after
\* issuance time + t.
C3_ExpiresAtInstant ==
    (HoldsAccessToken /\ out.op = "access") =>
        /\ now < IssuedExpiry => out.status = 200 /\ out.sub = issued.subject
        /\ now > IssuedExpiry => InvalidTokenError(out)

\* C3 amended: verification returns sub = S at any time before issuance time + t
\* and fails with InvalidToken at any time one second or more after issuance
\* time + t; once a token is refused as expired it is refused at every later time.
C3_ExpiresWithinSecond ==
    /\ []((HoldsAccessToken /\ out.op = "access") =>
            /\ now < IssuedExpiry => out.status = 200 /\ out.sub = issued.subject
            /\ now >= IssuedExpiry + TicksPerSec => InvalidTokenError(out))
    /\ [][(tok' = tok /\ HoldsAccessToken
             /\ InvalidTokenError(decode_access_token(tok, now)))
            => InvalidTokenError(decode_access_token(tok', now'))]_vars

\* C3 witness: an issued access token was verified after its lifetime and refused
C3_Witness ==
    /\ HoldsAccessToken /\ issued.ttl = MaxTtl
    /\ out.op = "access"
    /\ now >= IssuedExpiry + TicksPerSec
    /\ InvalidTokenError(out)

\* the three outcomes of verify_reset_token, given what "past expiry" means
ResetOutcomes(pastExpiry) ==
    out.op = "reset" =>
        LET signed == tok.sig = "valid"
            purpose == PayloadGet(tok.payload, "purpose")
        IN  /\ out.status = 200 =>
                  /\ signed /\ ~pastExpiry /\ purpose = "reset_password"
                  /\ out.sub = tok.payload["sub"]
            /\ (signed /\ ~pastExpiry /\ purpose # "reset_password") =>
                  out.status = 400 /\ out.detail = "Invalid token purpose"
            /\ (~signed \/ pastExpiry) =>
                  out.status = 401 /\ out.detail = "Invalid or expired reset token"

\* C4 as stated: verify_reset_token returns the subject only for a signed,
\* unexpired token with purpose "reset_password", fails with InvalidPurpose for
\* a signed, unexpired token with another or no purpose, and with InvalidToken
\* for a bad signature or once the instant named by exp has passed.
C4_ResetOutcomesAtInstant ==
    ResetOutcomes(now > PayloadGet(tok.payload, "exp") * TicksPerSec)

\* C4 amended: the same three outcomes, a token counting as past expiry from one
\* full second after the instant named by exp.
C4_ResetOutcomesWithinSecond ==
    ResetOutcomes(now >= (PayloadGet(tok.payload, "exp") + 1) * TicksPerSec)

\* C4 witness: an access token without purpose claim was refused for its purpose
C4_Witness ==
    /\ issued.by = "access" /\ tok.sig = "valid"
    /\ out.op = "reset"
    /\ out.status = 400 /\ out.detail = "Invalid token purpose"

C5_FilterKeepsOnlyAllowed ==
    (q_out.op = "filter" /\ q_out.status = 200) =>
        /\ \A i \in 1..Len(q_out.result) :
             LET key == q_out.result[i][1]
             IN  /\ key \in q_allowed
                 /\ key[1] # "$"
                 /\ key \in DictKeys(q_in)
                 /\ q_out.result[i][2] = DictValue(q_in, key)
        /\ \A key \in DictKeys(q_in) :
             (key \notin q_allowed \/ key[1] = "$")
                 => key \notin DictKeys(q_out.result)

\* C5 witness: {"email": "a@b.com", "$where": ...} with allow-list {"email"}
\* came back as {"email": "a@b.com"}
C5_Witness ==
    /\ q_out.op = "filter" /\ q_out.status = 200
    /\ q_in = <<<<KeyEmail, ValString>>, <<KeyWhere, ValString>>>>
    /\ q_allowed = {KeyEmail}
    /\ q_out.result = <<<<KeyEmail, ValString>>>>

\* a mapping, or a list holding mappings
IsNestedStructure(value) ==
    \/ value.type = "dict"
    \/ value.type = "list" /\ \E i \in 1..Len(value.items) : value.items[i] = "dict"

\* C6: both builders fail with ValidationError whenever a surviving key's value
\* is a nested structure (a mapping, or a list holding mappings), so no mapping
\* they return holds a nested value; nested values under dropped keys alone
\* cause no "invalid value" failure.
C6_NestedValuesRejected ==
    q_out.op \in {"filter", "update"} =>
        LET surviving == { i \in 1..Len(q_in) :
                             /\ q_in[i][1] \in q_allowed
                             /\ q_in[i][1][1] # "$" }
        IN  /\ (\E i \in surviving : IsNestedStructure(q_in[i][2]))
                 => q_out.status = 400
            /\ q_out.status = 200 =>
                 \A i \in 1..Len(q_out.result) :
                    ~IsNestedStructure(q_out.result[i][2])
            /\ (\A i \in surviving : ~IsNestedStructure(q_in[i][2]))
                 => q_out.detail \notin {"Invalid filter value", "Invalid update value"}

(***************************************************************************)
(* Upload validator properties                                             *)
(***************************************************************************)
UploadTooLarge == u_out = [status |-> 400, detail |-> "File too large"]

\* the call ended without the stream or the disk raising
EndedWithoutIoError ==
    u_pc = "done" /\ u_out.detail \notin {"read raised", "write raised"}

AllowedExtension == SuffixLower(sanitize_filename(u_name)) \in ALLOWED_EXTENSIONS

\* C7: for a stream with an allowed extension validate_upload fails with
\* TooLarge exactly when the stream is longer than MAX_UPLOAD_SIZE (exactly
\* MAX_UPLOAD_SIZE bytes are accepted); it fails at the first chunk that takes
\* the byte count past the ceiling, that chunk is not written, and the
\* temporary file is gone afterwards.
C7_TooLargeExactlyPastCeiling ==
    /\ u_written <= MAX_UPLOAD_SIZE
    /\ (AllowedExtension /\ EndedWithoutIoError) =>
          (UploadTooLarge <=> u_len > MAX_UPLOAD_SIZE)
    /\ UploadTooLarge =>
          /\ u_file = "absent"
          /\ u_size > MAX_UPLOAD_SIZE
          /\ u_written <= MAX_UPLOAD_SIZE
          /\ u_size - u_written <= CHUNK_SIZE
          /\ u_written = CHUNK_SIZE * (MAX_UPLOAD_SIZE \div CHUNK_SIZE)
    /\ (u_pc = "streaming" /\ u_size = u_written)
          => u_size <= MAX_UPLOAD_SIZE

\* C7 witness: a 15 MiB stream with an allowed extension ended in TooLarge
C7_Witness ==
    /\ AllowedExtension
    /\ u_len = 15 * 1024 * 1024
    /\ u_pc = "done"
    /\ UploadTooLarge
    /\ u_file = "absent"

\* C8: whenever validate_upload ends in a failure of any kind, no temporary
\* file of the call remains on disk; one remains only after a successful return.
C8_NoFileAfterFailure ==
    u_pc = "done" => (u_file = "present" <=> u_out.status = 200)

(***************************************************************************)
(* Password properties                                                     *)
(***************************************************************************)
\* C10 as stated: verify(P, hash(P)) is true and verify(P1, hash(P2)) is false
\* for every P1 # P2.
C10_VerifiesOnlyTheSamePassword ==
    pw_ret # <<>> => (pw_ret[1] <=> pw_cand = pw_plain)

\* the bytes bcrypt is given for a password: the UTF-8 encoding of the text
\* without its leading and trailing blanks, cut after BCRYPT_MAX_BYTES bytes
RECURSIVE Utf8Bytes(_)
Utf8Bytes(text) ==
    IF text = <<>> THEN <<>>
    ELSE (IF Head(text) = "e'" THEN <<195, 169>>
          ELSE IF Head(text) = " " THEN <<32>> ELSE <<97>>) \o Utf8Bytes(Tail(text))

HashedBytes(password) ==
    LET kept == {i \in 1..Len(password) : password[i] # " "}
        first == IF kept = {} THEN 1 ELSE CHOOSE i \in kept : \A j \in kept : i <= j
        last == IF kept = {} THEN 0 ELSE CHOOSE i \in kept : \A j \in kept : j <= i
        bytes == Utf8Bytes(SubSeq(password, first, last))
    IN  SubSeq(bytes, 1, IF Len(bytes) < BCRYPT_MAX_BYTES THEN Len(bytes)
                          ELSE BCRYPT_MAX_BYTES)

\* C10 amended: verify(P, hash(P)) is true, and verify(P1, hash(P2)) is false
\* exactly for the P1, P2 that differ in the bytes handed to bcrypt, which are
\* the UTF-8 encoding of the password stripped of surrounding whitespace and
\* cut to 72 bytes.
C10_VerifiesBySameHashedBytes ==
    pw_ret # <<>> =>
        /\ pw_cand = pw_plain => pw_ret[1]
        /\ pw_ret[1] <=> HashedBytes(pw_cand) = HashedBytes(pw_plain)

\* C10 witness: two different passwords near the 72 byte limit, the second
\* refused against the hash of the first
C10_Witness ==
    /\ pw_ret = <<FALSE>>
    /\ Len(pw_plain) > BCRYPT_MAX_BYTES - 2
    /\ Len(pw_cand) > BCRYPT_MAX_BYTES - 2
    /\ pw_cand # pw_plain

(***************************************************************************)
(* Rate limiter: keys, interleavings, recovery                             *)
(***************************************************************************)
\* the keys the pairs are stored under
Keys == {KeyOf(p[1], p[2]) : p \in Pairs}

WindowTicks == RATE_LIMIT_WINDOW * TicksPerSec

\* how often t occurs in list
Occurrences(list, t) == Cardinality({i \in 1..Len(list) : list[i] = t})

\* the smallest timestamp of a non-empty list
Oldest(list) ==
    CHOOSE t \in Range(list) : \A u \in Range(list) : t <= u

\* C11: a check_rate_limit call for one (ip, route) pair leaves the timestamp
\* sequence of every other pair as it was, also for pairs whose texts hold ":".
C11_OnlyOwnPairChanges ==
    [][\A p \in Pairs :
         IsCheckStep(p) =>
           \A q \in Pairs \ {p} :
              StoreGet(rate_store', KeyOf(q[1], q[2]))
                 = StoreGet(rate_store, KeyOf(q[1], q[2]))]_vars

\* C12: with each call running from prune to append without suspending, no
\* interleaving of calls loses an update: every accepted call's timestamp is
\* in its key's sequence while it is inside the window, the sequence never
\* holds more than RATE_LIMIT_MAX timestamps, and no more than RATE_LIMIT_MAX
\* calls of a key are accepted within any one window.
C12_NoLostUpdate ==
    \A key \in Keys :
        LET list == StoreGet(rate_store, key)
            accepted == StoreGet(rl_accepted, key)
        IN  /\ \A i \in 1..Len(accepted) :
                 now - accepted[i] < WindowTicks =>
                    Occurrences(list, accepted[i])
                       = Occurrences(accepted, accepted[i])
            /\ Len(list) <= RATE_LIMIT_MAX
            /\ \A start \in 0..now :
                 Cardinality({i \in 1..Len(accepted) :
                                /\ start <= accepted[i]
                                /\ accepted[i] < start + WindowTicks})
                    <= RATE_LIMIT_MAX

\* C12 witness: calls for two pairs were interleaved, one pair ran into the
\* ceiling and was rejected, and after an accepted timestamp aged out its
\* sequence is full again
C12_Witness ==
    LET key == KeyOf(IpA, RouteX)
    IN  /\ rl_pair = <<IpA, RouteX>>
        /\ Len(StoreGet(rate_store, key)) = RATE_LIMIT_MAX
        /\ Len(StoreGet(rl_accepted, key)) > RATE_LIMIT_MAX
        /\ key \in DOMAIN rl_rejected
        /\ StoreGet(rate_store, KeyOf(IpA, RouteBX)) # <<>>

\* C13: a rejected call records nothing, and a call made one full window or
\* more after the oldest timestamp recorded for its pair is accepted.
C13_RecoversAfterWindow ==
    [][\A p \in Pairs :
         IsCheckStep(p) =>
           LET before == StoreGet(rate_store, KeyOf(p[1], p[2]))
               after == StoreGet(rate_store', KeyOf(p[1], p[2]))
           IN  /\ ~rl_ret' => Range(after) \subseteq Range(before)
               /\ (before # <<>> /\ now >= Oldest(before) + WindowTicks)
                     => rl_ret']_vars

\* C13 witness: a key took RATE_LIMIT_MAX calls at one clock reading, had calls
\* rejected, and exactly one window later its next call was accepted
C13_Witness ==
    LET key == KeyOf(IpA, RouteX)
        accepted == StoreGet(rl_accepted, key)
    IN  /\ rl_pair = <<IpA, RouteX>>
        /\ rl_ret
        /\ Len(accepted) = RATE_LIMIT_MAX + 1
        /\ \A i \in 1..RATE_LIMIT_MAX : accepted[i] = now - WindowTicks
        /\ accepted[RATE_LIMIT_MAX + 1] = now
        /\ key \in DOMAIN rl_rejected
        /\ StoreGet(rate_store, key) = <<now>>

====
